---- MODULE Spec2Model ----
(***************************************************************************)
(* Model of the InfiniFuse storage core: the region-file sector allocator  *)
(* and chunk lifecycle of minecraft/chunk.py, the block-state decoder of   *)
(* Chunk.get_block, and of minecraft/nbt.py the type discipline of         *)
(* TAG_List and TAG_Compound, the binary form of the tags and the length   *)
(* prefix of TAG_String.                                                   *)
(*                                                                         *)
(* One region file (r.0.0.mca of one folder) is modelled.  Its 8 KiB       *)
(* header is the table header: entry i holds the 3-byte sector offset off, *)
(* the 1-byte sector count cnt and the 4-byte timestamp ts.  Entries that  *)
(* are all zero are not stored (LocOffset, LocCount, Timestamp read them   *)
(* as 0), and neither are sectors that are all zero (SectorAt).            *)
(* A sector is described by what the program stored in it:                 *)
(*   hd  value whose 4-byte length prefix sits at bytes 0..3 (0: none)     *)
(*   cp  the byte at position 4 (the compression id of a payload start)    *)
(*   pl  value whose compressed image fills the sector body (0: zeros)     *)
(*   ix  index of this sector inside that image                            *)
(*   ov  value whose image ran 1..3 bytes over into bytes 0..2 (0: none)   *)
(***************************************************************************)
EXTENDS Integers, Sequences, FiniteSets, TLC

VARIABLES
    exists,      \* os.path.exists(self.file)
    header,      \* the location and timestamp tables of the region file
    fileLen,     \* len(MCA), in sectors
    data,        \* the sectors after the header
    chunks,      \* the Chunk objects: st, x, z, val, ts
    now,         \* int(time.time())
    nWrites,     \* number of times Chunk.write() ran past its closed check
    res,         \* the last operation and how it ended
    section,     \* get_block: the section list of the decoded chunk
    blk,         \* get_block: the last call and its result
    lst,         \* TAG_List.value
    lres,        \* TAG_List: the last operation and how it ended
    cpd,         \* TAG_Compound.value: the entries, in order
    cres,        \* TAG_Compound: the last operation and how it ended
    str,         \* TAG_String: the text given to the constructor
    sres         \* TAG_String: the last operation and how it ended

regionVars == <<exists, header, fileLen, data>>
blockVars  == <<section, blk>>
listVars   == <<lst, lres>>
nbtVars    == <<cpd, cres, str, sres>>
vars == <<exists, header, fileLen, data, chunks, now, nWrites, res,
          section, blk, lst, lres, cpd, cres, str, sres>>

-----------------------------------------------------------------------------
(* Program constants *)

SectorSize == 4096
HeaderEntries == 1024
HeaderSectors == 2
MaxSectorCount == 255
Zlib == 2

(* Bounds of the model *)

MaxWrites == 3
MaxClock == 1

Entries == 0 .. (HeaderEntries - 1)

\* Region-relative chunk coordinates used as inputs: two ordinary slots and
\* one whose z is 8 rows below the first.
Coords == { <<0, 0>>, <<1, 0>>, <<0, 8>> }

\* len(compress(chunk.to_bytes())) of the chunk contents used as inputs:
\* one sector; one sector whose 4+length bytes run over it; two sectors;
\* 256 sectors (does not fit the 1-byte count).
PayloadLens == <<100, 4092, 5000, 1044479>>
Values == 1 .. Len(PayloadLens)

Max(S) == CHOOSE m \in S : \A n \in S : n <= m

ZeroEntry == [off |-> 0, cnt |-> 0, ts |-> 0]
ZeroSector == [hd |-> 0, cp |-> 0, pl |-> 0, ix |-> 0, ov |-> 0]

LocOffset(i) == IF i \in DOMAIN header THEN header[i].off ELSE 0
LocCount(i) == IF i \in DOMAIN header THEN header[i].cnt ELSE 0
Timestamp(i) == IF i \in DOMAIN header THEN header[i].ts ELSE 0
SectorAt(s) == IF s \in DOMAIN data THEN data[s] ELSE ZeroSector

\* The stored form of a table E(_) over I: its entries that differ from zero.
Pack(E(_), I, zero) == [i \in {k \in I : E(k) # zero} |-> E(i)]

NoChunk == [st |-> "none", x |-> 0, z |-> 0, val |-> 0, ts |-> 0]
\* res: the operation op of chunk object c (0: none kept) at coordinates p
\* with content v ended with out; closed: the chunk was closed when it began.
\* For a write(): alloc, the slot was Allocated before; d, the change of the
\* slot's sector count; again, it repeats the successful write() before it.
Res(op, c, p, v, out, closed) ==
    [op |-> op, c |-> c, p |-> p, v |-> v, out |-> out, closed |-> closed,
     alloc |-> FALSE, d |-> 0, again |-> FALSE]
NoRes == Res("none", 0, <<0, 0>>, 0, "ok", FALSE)

-----------------------------------------------------------------------------
(* compression.py is not part of the modelled sources: schemes 1, 2, 3 are *)
(* accepted, any other id is an error; the length depends on the content.  *)

Compress(v, scheme) ==
    [ok |-> scheme \in {1, 2, 3}, len |-> PayloadLens[v]]

-----------------------------------------------------------------------------
(* Chunk.write / Chunk.open: position of the header entry, in bytes *)

\* (4 * (chunkX + chunkZ*32)) % 1024
Header(x, z) == (4 * (x + z * 32)) % 1024

\* MCA[header:header+3], MCA[header+3], MCA[header+4096:header+4100] are the
\* entry header/4 of the location table and of the timestamp table.
Entry(h) == h \div 4

\* max(2, *[offset_i + count_i for i in range(1024)])
FreeOffsetNoCount ==
    Max({HeaderSectors} \cup {LocOffset(i) : i \in Entries})

FreeOffset ==
    Max({HeaderSectors} \cup {LocOffset(i) + LocCount(i) : i \in Entries})

\* newSectorCount = 1 + (length // 4096)
NewSectorCount(length) == 1 + (length \div SectorSize)

\* oldSectorCount = MCA[header+3], for the entry h
OldSectorCountLowOffsetByte(h) == LocOffset(h) % 256

OldSectorCount(h) == LocCount(h)

\* the loop over range(1024): if oldOffset > offset: oldOffset + sectorChange
ShiftedOffsetWrongSign(oldOffset, offset, sectorChange) ==
    IF oldOffset > offset THEN oldOffset - sectorChange ELSE oldOffset

ShiftedOffset(oldOffset, offset, sectorChange) ==
    IF oldOffset > offset THEN oldOffset + sectorChange ELSE oldOffset

\* byte 4 of a sector in the middle of a compressed image: not a scheme id
DataByte == 0 - 1

\* MCA[(4096*offset) + 4] for offset >= 2; -2 stands for IndexError
CompressionAt(offset, len) ==
    IF offset >= len THEN 0 - 2 ELSE SectorAt(offset).cp

\* data = MCA[oldStart:]; MCA.resize(len(MCA) + sectorChange*4096);
\* MCA[newStart:] = data: sector s of the file after the move.  The sectors
\* between oldStart and newStart keep what they held.
MovedSector(s, offset, oldSectorCount, sectorChange) ==
    IF sectorChange # 0 /\ s >= offset + oldSectorCount + sectorChange
        THEN SectorAt(s - sectorChange)
        ELSE SectorAt(s)

\* number of sectors the 4+length bytes of an image reach into
Touched(length) == (4 + length + SectorSize - 1) \div SectorSize

\* MCA[offset:offset+4] = length; MCA[offset+4] = compression;
\* MCA[offset+5 : offset+length+4] = chunkData: sector s after the stores,
\* where old is the sector before them.
StoredSector(old, s, offset, v, compression, length, newSectorCount) ==
    LET j == s - offset IN
    IF j < 0 \/ j >= Touched(length) THEN old
    ELSE IF j >= newSectorCount THEN [old EXCEPT !.ov = v]
    ELSE [hd |-> IF j = 0 THEN v ELSE 0,
          cp |-> IF j = 0 THEN compression ELSE DataByte,
          pl |-> v, ix |-> j, ov |-> 0]

\* Only the length prefix and the compression byte were stored.
PrefixSector(old, s, offset, v, compression) ==
    IF s = offset THEN [old EXCEPT !.hd = v, !.cp = compression, !.ov = 0]
    ELSE old

(***************************************************************************)
(* Chunk.write() from the header read to the last store, for the chunk at  *)
(* (x, z) with content v at time t.  The result is the outcome and the     *)
(* file the call leaves behind.                                            *)
(***************************************************************************)
WriteResult(x, z, v, t) ==
    LET h == Entry(Header(x, z))
        len0 == IF exists THEN fileLen ELSE HeaderSectors
        absent == LocOffset(h) = 0
        offset == IF absent THEN FreeOffset ELSE LocOffset(h)
        compression == IF absent THEN Zlib ELSE CompressionAt(offset, len0)
        same == [out |-> "ok", hdr |-> header, len |-> len0, dat |-> data]
    IN  IF compression = 0 - 2 THEN [same EXCEPT !.out = "IndexError"]
        ELSE IF ~Compress(v, compression).ok
            THEN [same EXCEPT !.out = "CompressError"]
        ELSE
        LET length == Compress(v, compression).len + 1
            oldSectorCount == OldSectorCount(h)
            newSectorCount == NewSectorCount(length)
            sectorChange == newSectorCount - oldSectorCount
            Off1(i) == IF sectorChange = 0 THEN LocOffset(i)
                       ELSE ShiftedOffset(LocOffset(i), offset, sectorChange)
            len1 == len0 + sectorChange
            Sec1(s) == MovedSector(s, offset, oldSectorCount, sectorChange)
            \* header before MCA[header+3] = newSectorCount
            E1(i) == [off |-> IF i = h THEN offset ELSE Off1(i),
                      cnt |-> LocCount(i), ts |-> Timestamp(i)]
            \* header after the three header stores
            E2(i) == IF i = h
                     THEN [off |-> offset, cnt |-> newSectorCount, ts |-> t]
                     ELSE E1(i)
            SecP(s) == PrefixSector(Sec1(s), s, offset, v, compression)
            SecD(s) == StoredSector(Sec1(s), s, offset, v, compression,
                                    length, newSectorCount)
            \* Entries and sectors that can differ from zero afterwards: a
            \* zero entry is never shifted, a zero sector moves onto zeros.
            I == DOMAIN header \cup {h}
            S == { s \in DOMAIN data \cup {k + sectorChange : k \in DOMAIN data}
                         \cup (offset .. (offset + Touched(length))) :
                   s >= HeaderSectors /\ s < len1 }
        IN  IF newSectorCount > MaxSectorCount
                THEN [out |-> "ValueError", hdr |-> Pack(E1, I, ZeroEntry),
                      len |-> len1, dat |-> Pack(Sec1, S, ZeroSector)]
            ELSE IF offset >= len1
                THEN [out |-> "IndexError", hdr |-> Pack(E2, I, ZeroEntry),
                      len |-> len1, dat |-> Pack(Sec1, S, ZeroSector)]
            ELSE IF offset * SectorSize + length + 4 > len1 * SectorSize
                THEN [out |-> "IndexError", hdr |-> Pack(E2, I, ZeroEntry),
                      len |-> len1, dat |-> Pack(SecP, S, ZeroSector)]
            ELSE [out |-> "ok", hdr |-> Pack(E2, I, ZeroEntry),
                  len |-> len1, dat |-> Pack(SecD, S, ZeroSector)]

\* The body of write() after the closed check.
WriteBody(r) ==
    /\ exists' = TRUE
    /\ header' = r.hdr
    /\ fileLen' = r.len
    /\ data' = r.dat
    /\ nWrites' = nWrites + 1

-----------------------------------------------------------------------------
(* Reading a header table hd *)

OffIn(hd, i) == IF i \in DOMAIN hd THEN hd[i].off ELSE 0
CntIn(hd, i) == IF i \in DOMAIN hd THEN hd[i].cnt ELSE 0
TsIn(hd, i) == IF i \in DOMAIN hd THEN hd[i].ts ELSE 0

\* the slot states of the allocator
Absent(hd, i) == OffIn(hd, i) < 2 \/ CntIn(hd, i) = 0
Allocated(hd, i) == ~Absent(hd, i)

Slot(p) == Entry(Header(p[1], p[2]))

\* this step ran the body of Chunk.write()
WriteStep == nWrites' = nWrites + 1

-----------------------------------------------------------------------------
(* The allocator: chunks at the coordinates of Coords are written by open  *)
(* Chunk objects whose content is one of Values.                           *)

WriteChunk(p, v) ==
    /\ nWrites < MaxWrites
    /\ LET r == WriteResult(p[1], p[2], v, now)
       IN  /\ WriteBody(r)
           /\ res' = [Res("write", 0, p, v, r.out, FALSE) EXCEPT
                       !.alloc = Allocated(header, Slot(p)),
                       !.d = CntIn(r.hdr, Slot(p)) - LocCount(Slot(p)),
                       !.again = /\ res.op = "write" /\ res.out = "ok"
                                 /\ res.p = p /\ res.v = v]
    /\ UNCHANGED <<chunks, now, blockVars, listVars, nbtVars>>

\* time passes
Tick ==
    /\ now < MaxClock
    /\ now' = now + 1
    /\ UNCHANGED <<regionVars, chunks, nWrites, res, blockVars, listVars, nbtVars>>

InitNbt ==
    /\ cpd = << >>
    /\ cres = 0
    /\ str = 0
    /\ sres = 0

InitRest ==
    /\ InitNbt
    /\ chunks = << >>
    /\ section = << >>
    /\ blk = 0
    /\ lst = << >>
    /\ lres = 0

Init ==
    /\ exists = FALSE
    /\ header = << >>
    /\ fileLen = 0
    /\ data = << >>
    /\ now = 0
    /\ nWrites = 0
    /\ res = NoRes
    /\ InitRest

Next ==
    \/ \E p \in Coords, v \in Values : WriteChunk(p, v)
    \/ Tick

Spec == Init /\ [][Next]_vars

-----------------------------------------------------------------------------
(* Chunk.get_block.  A section is [Y, hasPalette, Palette, hasStates,      *)
(* BlockStates]; Palette is the sequence of its block entries, BlockStates *)
(* the sequence of TAG_Long, each held as its 8 encoded bytes (_value).    *)

\* TAG.Compound({'Name': TAG.String('minecraft:air')}); the entries of a
\* palette are numbered from 1
Air == 0

Pow2(n) == IF n = 0 THEN 1 ELSE IF n = 1 THEN 2 ELSE IF n = 2 THEN 4
           ELSE IF n = 3 THEN 8 ELSE IF n = 4 THEN 16 ELSE IF n = 5 THEN 32
           ELSE IF n = 6 THEN 64 ELSE IF n = 7 THEN 128 ELSE 256

\* int.bit_length()
RECURSIVE BitLength(_)
BitLength(n) == IF n = 0 THEN 0 ELSE 1 + BitLength(n \div 2)

\* TAG_Integer.unsigned of a TAG_Long: struct.unpack('>Q', self._value), as
\* the function from bit position (0 is the least significant) to bit.
Unsigned(bytes) ==
    [k \in 0 .. 63 |-> (bytes[8 - (k \div 8)] \div Pow2(k % 8)) % 2]

\* util.get_bits(num, start, end): util is not part of the modelled sources;
\* the bits start .. end-1 of num, as a number.
RECURSIVE GetBits(_, _, _)
GetBits(num, start, end) ==
    IF start >= end THEN 0
    ELSE num[start] + 2 * GetBits(num, start + 1, end)

\* bitLen = max(4, len(section['Palette']).bit_length())
BitLen(paletteSize) ==
    IF BitLength(paletteSize) > 4 THEN BitLength(paletteSize) ELSE 4

\* block = y*16*16 + z*16 + x
BlockIndex(x, y, z) == y * 16 * 16 + z * 16 + x

\* for section in Sections: if section['Y'] == sectionID: break
RECURSIVE FindSection(_, _)
FindSection(secs, sectionID) ==
    IF secs = << >> THEN 0
    ELSE IF Head(secs).Y = sectionID THEN 1
    ELSE LET r == FindSection(Tail(secs), sectionID)
         IN  IF r = 0 THEN 0 ELSE r + 1

BlockOk(b) == [out |-> "ok", val |-> b]
BlockErr(e) == [out |-> e, val |-> 0 - 1]

\* lastBit = 64 - subIndex*bitLen; start = lastBit - bitLen; end = lastBit
LastBitLittleEnd(subIndex, bitLen) == (subIndex + 1) * bitLen

LastBit(subIndex, bitLen) == 64 - subIndex * bitLen

\* section['Palette'][blockStateID]
PaletteLookup(palette, blockStateID) ==
    IF blockStateID < Len(palette) THEN BlockOk(palette[blockStateID + 1])
    ELSE BlockErr("IndexError")

\* The part of get_block after the section was found.
SectionBlock(sec, x, y, z) ==
    IF ~sec.hasPalette THEN BlockOk(Air)
    ELSE
    LET bitLen == BitLen(Len(sec.Palette))
        blocksPerEntry == 64 \div bitLen
        block == BlockIndex(x, y, z)
        index == block \div blocksPerEntry
        subIndex == block % blocksPerEntry
        lastBit == LastBit(subIndex, bitLen)
    IN  IF ~sec.hasStates THEN BlockErr("KeyError")
        ELSE IF index >= Len(sec.BlockStates) THEN BlockErr("IndexError")
        ELSE PaletteLookup(sec.Palette,
                 GetBits(Unsigned(sec.BlockStates[index + 1]),
                         lastBit - bitLen, lastBit))

GetBlockResult(secs, x, y, z) ==
    IF ~(0 <= x /\ x <= 15) \/ ~(0 <= y /\ y <= 255) \/ ~(0 <= z /\ z <= 15)
        THEN BlockErr("IndexError")
    ELSE LET sectionID == y \div 16
             k == FindSection(secs, sectionID)
         IN  IF k = 0 THEN BlockOk(Air)
             ELSE SectionBlock(secs[k], x, y % 16, z)

\* Inputs: palettes of p entries (entry i is block i), packed words, sections.
PaletteSizes == {0, 1, 3, 17, 33}
PaletteOf(n) == [i \in 1 .. n |-> i]
Words == { <<18, 52, 86, 120, 154, 188, 222, 240>>,
           <<255, 255, 255, 255, 255, 255, 255, 255>>,
           <<0, 0, 0, 0, 0, 0, 0, 0>>,
           <<130, 16, 0, 0, 0, 0, 8, 33>> }
SectionSet ==
    { [Y |-> sy, hasPalette |-> hp, Palette |-> PaletteOf(n),
       hasStates |-> hs, BlockStates |-> <<w, w2>>] :
         sy \in {0, 15}, hp \in BOOLEAN, n \in PaletteSizes, hs \in BOOLEAN,
         w \in Words, w2 \in {<<0, 0, 0, 0, 0, 0, 0, 1>>} }
SectionLists ==
    { << >> }
    \cup { <<sec>> : sec \in {t \in SectionSet :
                                /\ t.hasPalette \/ t.Palette = << >>
                                /\ t.hasStates \/ t.BlockStates[1][1] = 0} }
BlockXs == {0, 1, 15, 16}
BlockYs == {0, 1, 240, 255, 256}
BlockZs == {0 - 1, 0, 1, 15}

GetBlockCall(x, y, z) ==
    /\ blk' = [x |-> x, y |-> y, z |-> z,
               r |-> GetBlockResult(section, x, y, z)]
    /\ UNCHANGED <<regionVars, chunks, now, nWrites, res, section, listVars, nbtVars>>

InitBlock ==
    /\ exists = FALSE
    /\ header = << >>
    /\ fileLen = 0
    /\ data = << >>
    /\ now = 0
    /\ nWrites = 0
    /\ res = NoRes
    /\ chunks = << >>
    /\ section \in SectionLists
    /\ blk = [x |-> 0, y |-> 0, z |-> 0, r |-> BlockErr("none")]
    /\ lst = << >>
    /\ lres = 0
    /\ InitNbt

NextBlock == \E x \in BlockXs, y \in BlockYs, z \in BlockZs : GetBlockCall(x, y, z)

SpecBlock == InitBlock /\ [][NextBlock]_vars

-----------------------------------------------------------------------------
(* Chunk.open(chunkX, chunkZ, folder) *)

\* The image of a value is whole at sector offset: its prefix was not run
\* over and every sector its 4+length bytes reach into holds its part, the
\* sectors after those of the slot holding the 1..3 bytes that ran over.
Intact(offset, v) ==
    /\ SectorAt(offset).ov = 0
    /\ \A j \in 0 .. (Touched(PayloadLens[v] + 1) - 1) :
         /\ offset + j < fileLen
         /\ IF j < NewSectorCount(PayloadLens[v] + 1)
            THEN SectorAt(offset + j).pl = v /\ SectorAt(offset + j).ix = j
            ELSE SectorAt(offset + j).ov = v

\* offset = 4096 * int.from_bytes(MCA[header:header+3]) is in bytes
ByteOffset(sectorOffset) == SectorSize * sectorOffset

\* if sectorCount > 0 and offset >= 2
Present(sectorCount, offset) == sectorCount > 0 /\ offset >= 2

OpenResult(x, z) ==
    LET h == Entry(Header(x, z))
        sectorOffset == LocOffset(h)
        sectorCount == LocCount(h)
        fail(e) == [out |-> e, val |-> 0, ts |-> 0]
    IN  IF ~exists THEN fail("FileNotFoundError")
        ELSE IF ~Present(sectorCount, ByteOffset(sectorOffset))
            THEN fail("FileNotFoundError")
        \* MCA[offset+4] past the end of the file
        ELSE IF sectorOffset >= fileLen THEN fail("IndexError")
        \* the bytes decoded are those of the header tables, or no image,
        \* or a damaged one
        ELSE IF sectorOffset < HeaderSectors THEN fail("DecodeError")
        ELSE IF SectorAt(sectorOffset).hd = 0 THEN fail("DecodeError")
        ELSE IF ~Intact(sectorOffset, SectorAt(sectorOffset).hd)
            THEN fail("DecodeError")
        ELSE [out |-> "ok", val |-> SectorAt(sectorOffset).hd,
              ts |-> Timestamp(h)]

OpenChunk(p) ==
    /\ LET r == OpenResult(p[1], p[2])
       IN  res' = Res("open", 0, p, r.val, r.out, FALSE)
    /\ UNCHANGED <<regionVars, chunks, now, nWrites, blockVars, listVars, nbtVars>>

\* A region file as found on disk: one image at sector 2 and one location
\* entry with any small offset and count.
FoundOffsets == 0 .. 3
FoundCounts == 0 .. 2
FoundTimes == 0 .. 2

InitOpen ==
    /\ exists = TRUE
    /\ \E p \in Coords, o \in FoundOffsets, n \in FoundCounts, t \in FoundTimes :
         LET E(i) == IF i = Entry(Header(p[1], p[2]))
                     THEN [off |-> o, cnt |-> n, ts |-> t] ELSE ZeroEntry
         IN  header = Pack(E, Entries, ZeroEntry)
    /\ fileLen = 4
    /\ data = (2 :> [hd |-> 1, cp |-> Zlib, pl |-> 1, ix |-> 0, ov |-> 0])
    /\ now = 0
    /\ nWrites = 0
    /\ res = NoRes
    /\ InitRest

NextOpen == \E p \in Coords : OpenChunk(p)

SpecOpen == InitOpen /\ [][NextOpen]_vars

-----------------------------------------------------------------------------
(* A region file that is made by calls of write() that succeed, and read   *)
(* by open().  chunks[p] is the Chunk object written last at p.            *)

\* c = Chunk(value = v, folder = folder); c.write(), for the chunk at p and
\* for the contents and files with which write() returns
WriteAt(p, v) ==
    /\ nWrites < MaxWrites
    /\ LET r == WriteResult(p[1], p[2], v, now)
       IN  /\ r.out = "ok"
           /\ WriteBody(r)
           /\ res' = [Res("write", 0, p, v, r.out, FALSE) EXCEPT
                       !.alloc = Allocated(header, Slot(p)),
                       !.d = CntIn(r.hdr, Slot(p)) - LocCount(Slot(p)),
                       !.again = /\ res.op = "write" /\ res.out = "ok"
                                 /\ res.p = p /\ res.v = v]
           /\ chunks' = [chunks EXCEPT ![p] =
                           [st |-> "open", x |-> p[1], z |-> p[2],
                            val |-> v, ts |-> now]]
    /\ UNCHANGED <<now, blockVars, listVars, nbtVars>>

InitWritten ==
    /\ exists = FALSE
    /\ header = << >>
    /\ fileLen = 0
    /\ data = << >>
    /\ now = 0
    /\ nWrites = 0
    /\ res = NoRes
    /\ chunks = [p \in Coords |-> NoChunk]
    /\ section = << >>
    /\ blk = 0
    /\ lst = << >>
    /\ lres = 0
    /\ InitNbt

NextWritten ==
    \/ \E p \in Coords, v \in Values : WriteAt(p, v)
    \/ \E p \in Coords : OpenChunk(p)
    \/ Tick

SpecWritten == InitWritten /\ [][NextWritten]_vars

-----------------------------------------------------------------------------
(* The life of Chunk objects: construction, entry assignment, get_block,   *)
(* write and close, on the chunk at (0, 0).                                *)

NChunks == 2
ChunkIds == 1 .. NChunks
LifeValues == {1, 3}

\* the Sections list of the chunk contents used as inputs
ValueSections(v) ==
    IF v = 3
    THEN << [Y |-> 0, hasPalette |-> TRUE, Palette |-> PaletteOf(3),
             hasStates |-> TRUE,
             BlockStates |-> << <<18, 52, 86, 120, 154, 188, 222, 240>> >>] >>
    ELSE << >>

IsClosed(c) == chunks[c].st = "closed"

\* Chunk(value = v, folder = folder) for the chunk at (0, 0)
New(c, v) ==
    /\ chunks[c].st = "none"
    /\ chunks' = [chunks EXCEPT ![c] =
                    [st |-> "open", x |-> 0, z |-> 0, val |-> v, ts |-> now]]
    /\ res' = Res("new", c, <<0, 0>>, v, "ok", FALSE)
    /\ UNCHANGED <<regionVars, now, nWrites, blockVars, listVars, nbtVars>>

\* chunk[key] = value: forwarded to the Compound, whatever self.closed is
SetEntry(c, v) ==
    /\ chunks[c].st # "none"
    /\ chunks[c].val # v
    /\ chunks' = [chunks EXCEPT ![c].val = v]
    /\ res' = Res("set", c, <<0, 0>>, v, "ok", IsClosed(c))
    /\ UNCHANGED <<regionVars, now, nWrites, blockVars, listVars, nbtVars>>

\* chunk.get_block(0, 0, 0): no use of self.closed
GetBlock(c) ==
    /\ chunks[c].st # "none"
    /\ res' = Res("get_block", c, <<0, 0>>, chunks[c].val,
                GetBlockResult(ValueSections(chunks[c].val), 0, 0, 0).out,
                IsClosed(c))
    /\ UNCHANGED <<regionVars, chunks, now, nWrites, blockVars, listVars, nbtVars>>

\* write() of an open chunk, called directly (op = "write", the chunk stays
\* open) or by close(save = True) (op = "close_save", the chunk is closed
\* unless write() raised); self.timestamp is set before the file is touched.
WriteOpen(c, op, st) ==
    LET ch == chunks[c]
        r == WriteResult(ch.x, ch.z, ch.val, now)
    IN  /\ nWrites < MaxWrites
        /\ WriteBody(r)
        /\ chunks' = [chunks EXCEPT ![c].ts = now,
                                    ![c].st = IF r.out = "ok" THEN st ELSE @]
        /\ res' = Res(op, c, <<ch.x, ch.z>>, ch.val, r.out, FALSE)

Write(c) ==
    /\ chunks[c].st # "none"
    /\ IF IsClosed(c)
        THEN /\ res' = Res("write", c, <<0, 0>>, chunks[c].val,
                        "ValueError", TRUE)
             /\ UNCHANGED <<regionVars, chunks, nWrites>>
        ELSE WriteOpen(c, "write", "open")
    /\ UNCHANGED <<now, blockVars, listVars, nbtVars>>

Close(c, save) ==
    /\ chunks[c].st # "none"
    /\ IF (~IsClosed(c)) /\ save
        THEN WriteOpen(c, "close_save", "closed")
        ELSE /\ chunks' = [chunks EXCEPT ![c].st = "closed"]
             /\ res' = Res(IF save THEN "close_save" ELSE "close", c,
                        <<0, 0>>, chunks[c].val, "ok", IsClosed(c))
             /\ UNCHANGED <<regionVars, nWrites>>
    /\ UNCHANGED <<now, blockVars, listVars, nbtVars>>

InitLife ==
    /\ exists = FALSE
    /\ header = << >>
    /\ fileLen = 0
    /\ data = << >>
    /\ now = 0
    /\ nWrites = 0
    /\ res = NoRes
    /\ chunks = [c \in ChunkIds |-> NoChunk]
    /\ section = << >>
    /\ blk = 0
    /\ lst = << >>
    /\ lres = 0
    /\ InitNbt

NextLife ==
    \/ \E c \in ChunkIds, v \in LifeValues : New(c, v)
    \/ \E c \in ChunkIds, v \in LifeValues : SetEntry(c, v)
    \/ \E c \in ChunkIds : GetBlock(c)
    \/ \E c \in ChunkIds : Write(c)
    \/ \E c \in ChunkIds, save \in BOOLEAN : Close(c, save)

SpecLife == InitLife /\ [][NextLife]_vars

-----------------------------------------------------------------------------
(* TAG_List.  A tag is [k, v]: k the ID of its class, v its value.         *)

EndID == 0
ByteID == 1
ShortID == 2
IntID == 3
StringID == 8

IntegerIDs == {ByteID, ShortID, IntID}

\* the values struct.pack(fmt, value) accepts: 'B', '>h', '>i'
InRange(k, n) ==
    IF k = ByteID THEN 0 <= n /\ n <= 255
    ELSE IF k = ShortID THEN (0 - 32768) <= n /\ n <= 32767
    ELSE (0 - 2147483647) - 1 <= n /\ n <= 2147483647

\* elementType(value), for a tag value: TAG_Value.__init__ and the value
\* setters.  An integer class takes int(value), which a number tag forwards
\* to its value and a TAG_String does not define; struct.pack checks the
\* range.  TAG_String takes str(value).
Convert(k, tag) ==
    IF k \in IntegerIDs
    THEN IF tag.k \notin IntegerIDs THEN [out |-> "TypeError", tag |-> tag]
         ELSE IF ~InRange(k, tag.v) THEN [out |-> "struct.error", tag |-> tag]
         ELSE [out |-> "ok", tag |-> [k |-> k, v |-> tag.v]]
    ELSE [out |-> "ok",
          tag |-> [k |-> StringID,
                   v |-> IF tag.k = StringID THEN tag.v ELSE ToString(tag.v)]]

\* TAG_List.elementType
ElementType(l) == IF Len(l) > 0 THEN l[1].k ELSE EndID

\* TAG_List.append(value) for a tag value: the outcome and the new list
AppendResult(l, tag) ==
    IF ElementType(l) = EndID THEN [out |-> "ok", lst |-> Append(l, tag)]
    ELSE LET c == Convert(ElementType(l), tag)
         IN  IF c.out = "ok" THEN [out |-> "ok", lst |-> Append(l, c.tag)]
             ELSE [out |-> c.out, lst |-> l]

MaxLen == 3

TagPool ==
    { [k |-> ByteID, v |-> 0], [k |-> ByteID, v |-> 200],
      [k |-> ShortID, v |-> 5], [k |-> ShortID, v |-> 300],
      [k |-> ShortID, v |-> 0 - 1],
      [k |-> IntID, v |-> 7], [k |-> IntID, v |-> 70000],
      [k |-> StringID, v |-> "a"], [k |-> StringID, v |-> "12"] }

ListAppend(tag) ==
    /\ Len(lst) < MaxLen
    /\ LET r == AppendResult(lst, tag)
       IN  /\ lst' = r.lst
           /\ lres' = [op |-> "append", arg |-> tag, out |-> r.out]
    /\ UNCHANGED <<regionVars, chunks, now, nWrites, res, blockVars, nbtVars>>

InitList ==
    /\ exists = FALSE
    /\ header = << >>
    /\ fileLen = 0
    /\ data = << >>
    /\ now = 0
    /\ nWrites = 0
    /\ res = NoRes
    /\ chunks = << >>
    /\ section = << >>
    /\ blk = 0
    /\ lst = << >>
    /\ lres = [op |-> "none", arg |-> [k |-> EndID, v |-> 0], out |-> "ok"]
    /\ InitNbt

NextList == \E tag \in TagPool : ListAppend(tag)

SpecList == InitList /\ [][NextList]_vars

-----------------------------------------------------------------------------
(* TAG_List: the other operations that put elements into a List.  A key is *)
(* a Python index: the element self[key] is lst[key + 1].                  *)

\* TAG_MutableSequence.insert(key, value):
\* self.value = self[:key] + [value] + self[key:]
InsertResult(l, key, tag) ==
    [out |-> "ok",
     lst |-> SubSeq(l, 1, key) \o <<tag>> \o SubSeq(l, key + 1, Len(l))]

\* TAG_MutableSequence.__setitem__(key, value):
\* self.value[key] = self.elementType(value)
SetItemResult(l, key, tag) ==
    IF ElementType(l) = EndID THEN [out |-> "IndexError", lst |-> l]
    ELSE LET c == Convert(ElementType(l), tag)
         IN  IF c.out # "ok" THEN [out |-> c.out, lst |-> l]
             ELSE IF key >= Len(l) THEN [out |-> "IndexError", lst |-> l]
             ELSE [out |-> "ok", lst |-> [l EXCEPT ![key + 1] = c.tag]]

\* MutableSequence.extend(values): for v in values: self.append(v)
RECURSIVE ExtendResult(_, _)
ExtendResult(l, tags) ==
    IF tags = << >> THEN [out |-> "ok", lst |-> l]
    ELSE LET r == AppendResult(l, Head(tags))
         IN  IF r.out = "ok" THEN ExtendResult(r.lst, Tail(tags)) ELSE r

\* TAG_End(value): the value is dropped
EndTag == [k |-> EndID, v |-> 0]

\* [self.elementType(i) for i in other]: the first error ends it
RECURSIVE ConvertAll(_, _)
ConvertAll(k, tags) ==
    IF tags = << >> THEN [out |-> "ok", lst |-> << >>]
    ELSE LET c == IF k = EndID THEN [out |-> "ok", tag |-> EndTag]
                  ELSE Convert(k, Head(tags))
         IN  IF c.out # "ok" THEN [out |-> c.out, lst |-> << >>]
             ELSE LET r == ConvertAll(k, Tail(tags))
                  IN  IF r.out # "ok" THEN r
                      ELSE [out |-> "ok", lst |-> <<c.tag>> \o r.lst]

\* TAG_MutableSequence.__add__(other):
\* type(self)(self.value + [self.elementType(i) for i in other]), the new
\* List being filled by append
ConcatResult(l, tags) ==
    LET c == ConvertAll(ElementType(l), tags)
    IN  IF c.out # "ok" THEN [out |-> c.out, lst |-> l]
        ELSE ExtendResult(<< >>, l \o c.lst)

\* the tags given to insert and to item assignment
OpTags == { [k |-> ByteID, v |-> 200], [k |-> ShortID, v |-> 5],
            [k |-> StringID, v |-> "a"] }

\* the sequences given to extend and to +
TagSeqs ==
    { <<t>> : t \in OpTags }
    \cup { <<[k |-> ByteID, v |-> 0], [k |-> ShortID, v |-> 300]>>,
           <<[k |-> ShortID, v |-> 5], [k |-> ByteID, v |-> 0]>> }

ListOp(op, arg, r) ==
    /\ lst' = r.lst
    /\ lres' = [op |-> op, arg |-> arg, out |-> r.out]
    /\ UNCHANGED <<regionVars, chunks, now, nWrites, res, blockVars, nbtVars>>

ListInsert(key, tag) ==
    /\ Len(lst) < MaxLen
    /\ key <= Len(lst)
    /\ ListOp("insert", tag, InsertResult(lst, key, tag))

ListSetItem(key, tag) ==
    /\ key <= Len(lst)
    /\ ListOp("setitem", tag, SetItemResult(lst, key, tag))

ListExtend(tags) ==
    /\ Len(lst) + Len(tags) <= MaxLen
    /\ ListOp("extend", tags, ExtendResult(lst, tags))

\* l = l + other
ListConcat(tags) ==
    /\ Len(lst) + Len(tags) <= MaxLen
    /\ ListOp("concat", tags, ConcatResult(lst, tags))

NextListOps ==
    \/ \E tag \in TagPool : ListAppend(tag)
    \/ \E key \in 0 .. MaxLen, tag \in OpTags : ListInsert(key, tag)
    \/ \E key \in 0 .. MaxLen, tag \in OpTags : ListSetItem(key, tag)
    \/ \E tags \in TagSeqs : ListExtend(tags)
    \/ \E tags \in TagSeqs : ListConcat(tags)

SpecListOps == InitList /\ [][NextListOps]_vars

-----------------------------------------------------------------------------
(* TAG_Compound.  A text (a Python str) is the sequence of its code        *)
(* points.  The value of a String tag is a text, of a List tag the         *)
(* sequence of its elements, of a Compound tag the sequence of its entries *)
(* [name, tag] in the order of the dict.                                   *)

ListID == 9
CompoundID == 10

Ok(tag) == [out |-> "ok", tag |-> tag]
Raise(e) == [out |-> e, tag |-> EndTag]

\* str(n) of an int n
RECURSIVE Digits(_)
Digits(n) ==
    IF n < 10 THEN <<48 + n>> ELSE Digits(n \div 10) \o <<48 + (n % 10)>>
StrOfInt(n) == IF n < 0 THEN <<45>> \o Digits(0 - n) ELSE Digits(n)

\* int(s) of a str s: an optional sign and decimal digits
RECURSIVE DecimalValue(_)
DecimalValue(s) ==
    IF s = << >> THEN 0
    ELSE 10 * DecimalValue(SubSeq(s, 1, Len(s) - 1)) + (s[Len(s)] - 48)
IntOfText(s) ==
    LET signed == Len(s) > 0 /\ s[1] \in {43, 45}
        digits == IF signed THEN Tail(s) ELSE s
    IN  IF digits # << >> /\ \A i \in 1 .. Len(digits) :
                                48 <= digits[i] /\ digits[i] <= 57
        THEN [out |-> "ok",
              n |-> IF signed /\ s[1] = 45 THEN 0 - DecimalValue(digits)
                    ELSE DecimalValue(digits)]
        ELSE [out |-> "ValueError", n |-> 0]

\* TAG_String.to_snbt: the text in double quotes, each " escaped
RECURSIVE Escaped(_)
Escaped(s) ==
    IF s = << >> THEN << >>
    ELSE (IF Head(s) = 34 THEN <<92, 34>> ELSE <<Head(s)>>) \o Escaped(Tail(s))

\* repr(tag), which is to_snbt(): TAG_Number.to_snbt reads self.suffixes,
\* an attribute no class has
RECURSIVE Snbt(_), JoinSnbt(_), JoinEntries(_)
Snbt(tag) ==
    IF tag.k \in IntegerIDs THEN [out |-> "AttributeError", text |-> << >>]
    ELSE IF tag.k = StringID
        THEN [out |-> "ok", text |-> <<34>> \o Escaped(tag.v) \o <<34>>]
    ELSE IF tag.k = ListID
        THEN LET r == JoinSnbt(tag.v)
             IN  [out |-> r.out, text |-> <<91>> \o r.text \o <<93>>]
    ELSE LET r == JoinEntries(tag.v)
         IN  [out |-> r.out, text |-> <<123>> \o r.text \o <<125>>]
JoinSnbt(tags) ==
    IF tags = << >> THEN [out |-> "ok", text |-> << >>]
    ELSE LET h == Snbt(Head(tags))
             t == JoinSnbt(Tail(tags))
         IN  IF h.out # "ok" THEN h
             ELSE IF t.out # "ok" THEN t
             ELSE [out |-> "ok",
                   text |-> IF Tail(tags) = << >> THEN h.text
                            ELSE h.text \o <<44>> \o t.text]
JoinEntries(entries) ==
    IF entries = << >> THEN [out |-> "ok", text |-> << >>]
    ELSE LET h == Snbt(Head(entries).tag)
             t == JoinEntries(Tail(entries))
             e == Head(entries).name \o <<58>> \o h.text
         IN  IF h.out # "ok" THEN h
             ELSE IF t.out # "ok" THEN t
             ELSE [out |-> "ok",
                   text |-> IF Tail(entries) = << >> THEN e
                            ELSE e \o <<44>> \o t.text]

\* for i in value: what the loop variable takes.  A number is not iterable,
\* a String gives its characters, a List its elements, a Compound its keys.
Iterate(tag) ==
    IF tag.k \in IntegerIDs
        THEN [out |-> "TypeError", texts |-> FALSE, items |-> << >>]
    ELSE IF tag.k = StringID
        THEN [out |-> "ok", texts |-> TRUE,
              items |-> [i \in 1 .. Len(tag.v) |-> <<tag.v[i]>>]]
    ELSE IF tag.k = ListID
        THEN [out |-> "ok", texts |-> FALSE, items |-> tag.v]
    ELSE [out |-> "ok", texts |-> TRUE,
          items |-> [i \in 1 .. Len(tag.v) |-> tag.v[i].name]]

\* value[i] in TAG_Compound.__init__ for a List value and its element i
IndexedBy(l, i) ==
    IF i.k \notin IntegerIDs THEN Raise("TypeError")
    ELSE IF 0 <= i.v /\ i.v < Len(l) THEN Ok(l[i.v + 1])
    ELSE IF i.v < 0 /\ 0 - i.v <= Len(l) THEN Ok(l[Len(l) + i.v + 1])
    ELSE Raise("IndexError")

\* TAG_Compound(value) for a tag value: every value[i] has to be a tag, and
\* value itself becomes self.value
CompoundOf(tag) ==
    IF tag.k \in IntegerIDs THEN Raise("TypeError")
    ELSE IF tag.k = StringID
        THEN IF tag.v = << >> THEN Ok([k |-> CompoundID, v |-> << >>])
             ELSE Raise("TypeError")
    ELSE IF tag.k = ListID
        THEN IF \E i \in 1 .. Len(tag.v) : IndexedBy(tag.v, tag.v[i]).out # "ok"
             THEN IndexedBy(tag.v, tag.v[CHOOSE i \in 1 .. Len(tag.v) :
                     /\ IndexedBy(tag.v, tag.v[i]).out # "ok"
                     /\ \A j \in 1 .. (i - 1) :
                          IndexedBy(tag.v, tag.v[j]).out = "ok"])
             ELSE Ok([k |-> CompoundID,
                      v |-> [i \in 1 .. Len(tag.v) |->
                               [name |-> tag.v[i],
                                tag |-> IndexedBy(tag.v, tag.v[i]).tag]]])
    ELSE Ok(tag)

\* Coerce(k, tag) is cls(tag) and CoerceText(k, s) is cls(s), for the class
\* cls with ID k, a tag and a str s; FillList(l, items, texts) is the loop
\* of TAG_MutableSequence.__init__ over items (strs if texts), l being the
\* List so far.
RECURSIVE Coerce(_, _), CoerceText(_, _), FillList(_, _, _)
Coerce(k, tag) ==
    IF k \in IntegerIDs
    THEN IF tag.k \notin IntegerIDs THEN Raise("TypeError")
         ELSE IF ~InRange(k, tag.v) THEN Raise("struct.error")
         ELSE Ok([k |-> k, v |-> tag.v])
    ELSE IF k = StringID
    THEN IF tag.k \in IntegerIDs THEN Ok([k |-> StringID, v |-> StrOfInt(tag.v)])
         ELSE IF tag.k = StringID THEN Ok(tag)
         ELSE LET r == Snbt(tag)
              IN  IF r.out # "ok" THEN Raise(r.out)
                  ELSE Ok([k |-> StringID, v |-> r.text])
    ELSE IF k = ListID
    THEN LET it == Iterate(tag)
         IN  IF it.out # "ok" THEN Raise(it.out)
             ELSE FillList(<< >>, it.items, it.texts)
    ELSE CompoundOf(tag)
CoerceText(k, s) ==
    IF k \in IntegerIDs
    THEN LET n == IntOfText(s)
         IN  IF n.out # "ok" THEN Raise(n.out)
             ELSE IF ~InRange(k, n.n) THEN Raise("struct.error")
             ELSE Ok([k |-> k, v |-> n.n])
    ELSE IF k = StringID THEN Ok([k |-> StringID, v |-> s])
    ELSE IF k = ListID
    THEN FillList(<< >>, [i \in 1 .. Len(s) |-> <<s[i]>>], TRUE)
    ELSE IF s = << >> THEN Ok([k |-> CompoundID, v |-> << >>])
    ELSE Raise("TypeError")
FillList(l, items, texts) ==
    IF items = << >> THEN Ok([k |-> ListID, v |-> l])
    ELSE IF ElementType(l) = EndID
        THEN IF texts THEN Raise("ValueError")
             ELSE FillList(Append(l, Head(items)), Tail(items), texts)
    ELSE LET c == IF texts THEN CoerceText(ElementType(l), Head(items))
                  ELSE Coerce(ElementType(l), Head(items))
         IN  IF c.out # "ok" THEN c
             ELSE FillList(Append(l, c.tag), Tail(items), texts)

\* [self[key].elementType(i) for i in value], k being the element kind
RECURSIVE CoerceAll(_, _, _)
CoerceAll(k, items, texts) ==
    IF items = << >> THEN [out |-> "ok", lst |-> << >>]
    ELSE LET c == IF texts THEN CoerceText(k, Head(items))
                  ELSE Coerce(k, Head(items))
             r == CoerceAll(k, Tail(items), texts)
         IN  IF c.out # "ok" THEN [out |-> c.out, lst |-> << >>]
             ELSE IF r.out # "ok" THEN r
             ELSE [out |-> "ok", lst |-> <<c.tag>> \o r.lst]

\* the value TAG_Compound.__setitem__ stores under a key that holds old
NewValueAsGiven(old, value) == Ok(value)

NewValue(old, value) ==
    IF old.k = ListID /\ Len(old.v) > 0
    THEN LET it == Iterate(value)
             c == CoerceAll(ElementType(old.v), it.items, it.texts)
         IN  IF it.out # "ok" THEN Raise(it.out)
             ELSE IF c.out # "ok" THEN Raise(c.out)
             ELSE FillList(<< >>, c.lst, FALSE)
    ELSE Coerce(old.k, value)

HasKey(c, key) == \E i \in 1 .. Len(c) : c[i].name = key
KeyIndex(c, key) == CHOOSE i \in 1 .. Len(c) : c[i].name = key
Item(c, key) == c[KeyIndex(c, key)].tag

\* TAG_Compound.__setitem__(key, value): the outcome and the entries after
SetItemCompound(c, key, value) ==
    IF HasKey(c, key)
    THEN LET r == NewValue(Item(c, key), value)
         IN  IF r.out # "ok" THEN [out |-> r.out, cpd |-> c]
             ELSE [out |-> "ok",
                   cpd |-> [c EXCEPT ![KeyIndex(c, key)].tag = r.tag]]
    ELSE [out |-> "ok", cpd |-> Append(c, [name |-> key, tag |-> value])]

\* the keys and the values given to the assignment
Keys == { <<97>>, <<98>> }
IntTags == { [k |-> ByteID, v |-> 200], [k |-> ShortID, v |-> 5],
             [k |-> ShortID, v |-> 300], [k |-> IntID, v |-> 70000] }
TextTags == { [k |-> StringID, v |-> << >>], [k |-> StringID, v |-> <<97>>],
              [k |-> StringID, v |-> <<49, 50>>] }
ListTags ==
    { [k |-> ListID, v |-> l] :
        l \in { << >>, <<[k |-> ByteID, v |-> 200]>>,
                <<[k |-> ShortID, v |-> 5], [k |-> ShortID, v |-> 300]>>,
                <<[k |-> StringID, v |-> <<97>>]>> } }
CompoundTags ==
    { [k |-> CompoundID, v |-> e] :
        e \in { << >>, <<[name |-> <<97>>, tag |-> [k |-> ByteID, v |-> 200]]>> } }
AssignedTags == IntTags \cup TextTags \cup ListTags \cup CompoundTags

CompoundSetItem(key, value) ==
    /\ LET r == SetItemCompound(cpd, key, value)
       IN  /\ cpd' = r.cpd
           /\ cres' = [op |-> "setitem", key |-> key, arg |-> value,
                       out |-> r.out, had |-> HasKey(cpd, key)]
    /\ UNCHANGED <<regionVars, chunks, now, nWrites, res, blockVars,
                   listVars, str, sres>>

InitCompound ==
    /\ exists = FALSE
    /\ header = << >>
    /\ fileLen = 0
    /\ data = << >>
    /\ now = 0
    /\ nWrites = 0
    /\ res = NoRes
    /\ chunks = << >>
    /\ section = << >>
    /\ blk = 0
    /\ lst = << >>
    /\ lres = 0
    /\ cpd = << >>
    /\ cres = [op |-> "none", key |-> << >>, arg |-> EndTag, out |-> "ok",
               had |-> FALSE]
    /\ str = 0
    /\ sres = 0

NextCompound == \E key \in Keys, value \in AssignedTags : CompoundSetItem(key, value)

SpecCompound == InitCompound /\ [][NextCompound]_vars

-----------------------------------------------------------------------------
(* The binary form: to_bytes and from_bytes.  Bytes are numbers 0 .. 255;  *)
(* a decoder gives its outcome, the tag and the bytes it left unread.      *)

\* len(cls()) of a number class: the size of its struct format
Width(k) == IF k = ByteID THEN 1 ELSE IF k = ShortID THEN 2 ELSE 4

RECURSIVE BigEndian(_, _)
BigEndian(u, w) ==
    IF w = 0 THEN << >> ELSE BigEndian(u \div 256, w - 1) \o <<u % 256>>

RECURSIVE BytesValue(_)
BytesValue(b) ==
    IF b = << >> THEN 0
    ELSE 256 * BytesValue(SubSeq(b, 1, Len(b) - 1)) + b[Len(b)]

Inverted(b) == [i \in 1 .. Len(b) |-> 255 - b[i]]

\* struct.pack(fmt, n) for 'B', '>h', '>i' and n in range: two's complement
PackNumber(k, n) ==
    IF n >= 0 THEN BigEndian(n, Width(k))
    ELSE Inverted(BigEndian((0 - n) - 1, Width(k)))

\* struct.unpack(fmt, b)[0]: 'B' is unsigned, '>h' and '>i' are signed
UnpackNumber(k, b) ==
    IF k # ByteID /\ b[1] >= 128 THEN (0 - BytesValue(Inverted(b))) - 1
    ELSE BytesValue(b)

\* str.encode(): UTF-8
Utf8Char(c) ==
    IF c < 128 THEN <<c>>
    ELSE IF c < 2048 THEN <<192 + (c \div 64), 128 + (c % 64)>>
    ELSE IF c < 65536
        THEN <<224 + (c \div 4096), 128 + ((c \div 64) % 64), 128 + (c % 64)>>
    ELSE <<240 + (c \div 262144), 128 + ((c \div 4096) % 64),
           128 + ((c \div 64) % 64), 128 + (c % 64)>>
\* a text of ASCII characters is encoded by itself
RECURSIVE Utf8(_)
Utf8(s) ==
    IF \A i \in 1 .. Len(s) : s[i] < 128 THEN s
    ELSE Utf8Char(Head(s)) \o Utf8(Tail(s))

\* bytes.decode(encoding='utf-8')
Continues(b, n) == Len(b) >= n /\ \A i \in 2 .. n : 128 <= b[i] /\ b[i] < 192
RECURSIVE Utf8Decode(_)
Utf8Decode(b) ==
    IF \A i \in 1 .. Len(b) : b[i] < 128 THEN [out |-> "ok", text |-> b]
    ELSE LET n == IF b[1] < 128 THEN 1 ELSE IF b[1] < 224 THEN 2
                  ELSE IF b[1] < 240 THEN 3 ELSE 4
             c == IF n = 1 THEN b[1]
                  ELSE IF n = 2 THEN (b[1] - 192) * 64 + (b[2] - 128)
                  ELSE IF n = 3 THEN (b[1] - 224) * 4096 + (b[2] - 128) * 64
                                     + (b[3] - 128)
                  ELSE (b[1] - 240) * 262144 + (b[2] - 128) * 4096
                       + (b[3] - 128) * 64 + (b[4] - 128)
             valid == /\ b[1] < 128 \/ (194 <= b[1] /\ b[1] < 245)
                      /\ Continues(b, n)
                      /\ n = 3 => (c >= 2048 /\ ~(55296 <= c /\ c < 57344))
                      /\ n = 4 => (c >= 65536 /\ c < 1114112)
         IN  IF ~valid THEN [out |-> "UnicodeDecodeError", text |-> << >>]
             ELSE LET r == Utf8Decode(SubSeq(b, n + 1, Len(b)))
                  IN  IF r.out # "ok" THEN r
                      ELSE [out |-> "ok", text |-> <<c>> \o r.text]

\* TAG_String(s).to_bytes(): TAG_Short(len(newValue)).to_bytes() + newValue
StringBytes(s) ==
    IF InRange(ShortID, Len(Utf8(s)))
    THEN [out |-> "ok", bytes |-> PackNumber(ShortID, Len(Utf8(s))) \o Utf8(s)]
    ELSE [out |-> "struct.error", bytes |-> << >>]

\* encoded += TAG_End().to_bytes() if the element is a TAG_Compound
NoEndByte(tag) == << >>

EndByte(tag) == IF tag.k = CompoundID THEN <<0>> ELSE << >>

\* tag.to_bytes()
RECURSIVE ToBytes(_), ElementsBytes(_), EntriesBytes(_)
ToBytes(tag) ==
    IF tag.k = EndID THEN [out |-> "ok", bytes |-> <<0>>]
    ELSE IF tag.k \in IntegerIDs
        THEN [out |-> "ok", bytes |-> PackNumber(tag.k, tag.v)]
    ELSE IF tag.k = StringID THEN StringBytes(tag.v)
    ELSE IF tag.k = ListID
        THEN LET e == ElementsBytes(tag.v)
             IN  [out |-> e.out,
                  bytes |-> PackNumber(ByteID, ElementType(tag.v))
                            \o PackNumber(IntID, Len(tag.v)) \o e.bytes]
    ELSE EntriesBytes(tag.v)
ElementsBytes(tags) ==
    IF tags = << >> THEN [out |-> "ok", bytes |-> << >>]
    ELSE LET h == ToBytes(Head(tags))
             t == ElementsBytes(Tail(tags))
         IN  IF h.out # "ok" THEN h
             ELSE IF t.out # "ok" THEN t
             ELSE [out |-> "ok",
                   bytes |-> h.bytes \o EndByte(Head(tags)) \o t.bytes]
EntriesBytes(entries) ==
    IF entries = << >> THEN [out |-> "ok", bytes |-> << >>]
    ELSE LET e == Head(entries)
             n == StringBytes(e.name)
             h == ToBytes(e.tag)
             t == EntriesBytes(Tail(entries))
         IN  IF n.out # "ok" THEN n
             ELSE IF h.out # "ok" THEN h
             ELSE IF t.out # "ok" THEN t
             ELSE [out |-> "ok",
                   bytes |-> PackNumber(ByteID, e.tag.k) \o n.bytes \o h.bytes
                             \o EndByte(e.tag) \o t.bytes]

\* util.read_bytes(iterable, n): util is not part of the modelled sources;
\* the next n bytes of the stream, StopIteration when it ends before
ReadBytes(bytes, n) ==
    IF n > Len(bytes)
        THEN [out |-> "StopIteration", got |-> << >>, rest |-> << >>]
    ELSE IF n <= 0 THEN [out |-> "ok", got |-> << >>, rest |-> bytes]
    ELSE [out |-> "ok", got |-> SubSeq(bytes, 1, n),
          rest |-> SubSeq(bytes, n + 1, Len(bytes))]

\* TAG.from_ID(value): util.all_subclasses is not part of the modelled
\* sources; the class with that ID, of the 13 there are.  The classes with
\* IDs 4 to 7, 11 and 12 are not modelled.
FromID(n) ==
    IF n > 12 THEN "IndexError"
    ELSE IF n \in {EndID, StringID, ListID, CompoundID} \cup IntegerIDs THEN "ok"
    ELSE "OtherKind"

Decoded(tag, rest) == [out |-> "ok", tag |-> tag, rest |-> rest]
Failed(e) == [out |-> e, tag |-> EndTag, rest |-> << >>]

\* TAG_Number.from_bytes
NumberFromBytes(k, bytes) ==
    LET r == ReadBytes(bytes, Width(k))
    IN  IF r.out # "ok" THEN Failed(r.out)
        ELSE Decoded([k |-> k, v |-> UnpackNumber(k, r.got)], r.rest)

\* TAG_String.from_bytes
StringFromBytes(bytes) ==
    LET byteLength == NumberFromBytes(ShortID, bytes)
    IN  IF byteLength.out # "ok" THEN byteLength
        ELSE LET r == ReadBytes(byteLength.rest, byteLength.tag.v)
                 d == Utf8Decode(r.got)
             IN  IF r.out # "ok" THEN Failed(r.out)
                 ELSE IF d.out # "ok" THEN Failed(d.out)
                 ELSE Decoded([k |-> StringID, v |-> d.text], r.rest)

\* value[itemName] = itemValue on the dict of entries
DictSet(entries, name, tag) ==
    IF HasKey(entries, name)
    THEN [entries EXCEPT ![KeyIndex(entries, name)].tag = tag]
    ELSE Append(entries, [name |-> name, tag |-> tag])

\* cls.from_bytes(iterator) for the class with ID k; the elements of
\* TAG_MutableSequence.decode_bytes; the loop of TAG_Compound.from_bytes,
\* value being the dict so far
RECURSIVE FromBytes(_, _), DecodeElements(_, _, _), CompoundLoop(_, _)
FromBytes(k, bytes) ==
    IF k = EndID THEN Decoded(EndTag, bytes)
    ELSE IF k \in IntegerIDs THEN NumberFromBytes(k, bytes)
    ELSE IF k = StringID THEN StringFromBytes(bytes)
    ELSE IF k = ListID
    THEN LET id == NumberFromBytes(ByteID, bytes)
             length == NumberFromBytes(IntID, id.rest)
             e == DecodeElements(id.tag.v, length.tag.v, length.rest)
             l == FillList(<< >>, e.tag, FALSE)
         IN  IF id.out # "ok" THEN id
             ELSE IF FromID(id.tag.v) # "ok" THEN Failed(FromID(id.tag.v))
             ELSE IF length.out # "ok" THEN length
             ELSE IF e.out # "ok" THEN e
             ELSE IF l.out # "ok" THEN Failed(l.out)
             ELSE Decoded(l.tag, e.rest)
    ELSE CompoundLoop(bytes, << >>)
DecodeElements(k, n, bytes) ==
    IF n <= 0 THEN Decoded(<< >>, bytes)
    ELSE LET h == FromBytes(k, bytes)
             t == DecodeElements(k, n - 1, h.rest)
         IN  IF h.out # "ok" THEN h
             ELSE IF t.out # "ok" THEN t
             ELSE Decoded(<<h.tag>> \o t.tag, t.rest)
CompoundLoop(bytes, value) ==
    LET id == NumberFromBytes(ByteID, bytes)
    IN  IF id.out = "StopIteration"
            THEN Decoded([k |-> CompoundID, v |-> value], << >>)
        ELSE IF FromID(id.tag.v) # "ok" THEN Failed(FromID(id.tag.v))
        ELSE IF id.tag.v = EndID
            THEN Decoded([k |-> CompoundID, v |-> value], id.rest)
        ELSE LET itemName == StringFromBytes(id.rest)
                 itemValue == FromBytes(id.tag.v, itemName.rest)
             IN  IF itemName.out # "ok" THEN itemName
                 ELSE IF itemValue.out # "ok" THEN itemValue
                 ELSE CompoundLoop(itemValue.rest,
                          DictSet(value, itemName.tag.v, itemValue.tag))

\* The Compounds that are encoded: up to two entries, named "a" and "e"
\* with an acute accent, whose values are tags of every modelled kind,
\* empty and nested ones among them.
Compound(entries) == [k |-> CompoundID, v |-> entries]
List(elements) == [k |-> ListID, v |-> elements]
Entry1(name, tag) == <<[name |-> name, tag |-> tag]>>
CodecValues ==
    { [k |-> ByteID, v |-> 200], [k |-> ShortID, v |-> 0 - 2],
      [k |-> IntID, v |-> 70000],
      [k |-> StringID, v |-> << >>], [k |-> StringID, v |-> <<97, 233>>],
      List(<< >>),
      List(<<[k |-> ByteID, v |-> 0], [k |-> ByteID, v |-> 255]>>),
      List(<<[k |-> StringID, v |-> <<97>>]>>),
      List(<<Compound(<< >>),
             Compound(Entry1(<<97>>, [k |-> ByteID, v |-> 1]))>>),
      List(<<List(<< >>), List(<<[k |-> ShortID, v |-> 5]>>)>>),
      Compound(<< >>),
      Compound(Entry1(<<97>>, Compound(Entry1(<<98>>, [k |-> IntID, v |-> 0 - 1])))),
      Compound(Entry1(<<233>>, List(<<Compound(<< >>)>>))) }
CodecInputs ==
    { << >> }
    \cup { Entry1(n, t) : n \in {<<97>>, <<233>>}, t \in CodecValues }
    \cup { Entry1(<<97>>, t) \o Entry1(<<233>>, u) : t, u \in CodecValues }
    \cup { Entry1(<<233>>, t) \o Entry1(<<97>>, u) : t, u \in CodecValues }

\* b = c.to_bytes()
CompoundToBytes ==
    /\ cres.op = "none"
    /\ LET r == ToBytes(Compound(cpd))
       IN  cres' = [op |-> "to_bytes", out |-> r.out, bytes |-> r.bytes,
                    tag |-> EndTag, rest |-> << >>]
    /\ UNCHANGED <<regionVars, chunks, now, nWrites, res, blockVars,
                   listVars, cpd, str, sres>>

\* TAG_Compound.from_bytes(b)
CompoundFromBytes ==
    /\ cres.op = "to_bytes" /\ cres.out = "ok"
    /\ LET r == FromBytes(CompoundID, cres.bytes)
       IN  cres' = [op |-> "from_bytes", out |-> r.out, bytes |-> cres.bytes,
                    tag |-> r.tag, rest |-> r.rest]
    /\ UNCHANGED <<regionVars, chunks, now, nWrites, res, blockVars,
                   listVars, cpd, str, sres>>

InitCodec ==
    /\ exists = FALSE
    /\ header = << >>
    /\ fileLen = 0
    /\ data = << >>
    /\ now = 0
    /\ nWrites = 0
    /\ res = NoRes
    /\ chunks = << >>
    /\ section = << >>
    /\ blk = 0
    /\ lst = << >>
    /\ lres = 0
    /\ cpd \in CodecInputs
    /\ cres = [op |-> "none", out |-> "ok", bytes |-> << >>, tag |-> EndTag,
               rest |-> << >>]
    /\ str = 0
    /\ sres = 0

NextCodec == CompoundToBytes \/ CompoundFromBytes

SpecCodec == InitCodec /\ [][NextCodec]_vars

-----------------------------------------------------------------------------
(* TAG_String: construction from a text and decoding of the bytes it gave  *)

\* the texts given to the constructor: runs of "a" of small lengths and of
\* the lengths around 2^15 and 2^16, and texts with characters of two and
\* three UTF-8 bytes
StringLens == (0 .. 40) \cup {255, 256, 32767, 32768, 65535, 65536}
StringInputs ==
    { [i \in 1 .. n |-> 97] : n \in StringLens }
    \cup { <<233>>, <<97, 233>>, <<8364>>, <<233, 8364, 97>> }

\* t = TAG_String(str)
StringNew ==
    /\ sres.op = "none"
    /\ LET r == StringBytes(str)
       IN  sres' = [op |-> "new", out |-> r.out, bytes |-> r.bytes,
                    text |-> << >>, rest |-> << >>]
    /\ UNCHANGED <<regionVars, chunks, now, nWrites, res, blockVars,
                   listVars, cpd, cres, str>>

\* TAG_String.from_bytes(t.to_bytes())
StringDecode ==
    /\ sres.op = "new" /\ sres.out = "ok"
    /\ LET r == StringFromBytes(sres.bytes)
       IN  sres' = [op |-> "from_bytes", out |-> r.out, bytes |-> sres.bytes,
                    text |-> r.tag.v, rest |-> r.rest]
    /\ UNCHANGED <<regionVars, chunks, now, nWrites, res, blockVars,
                   listVars, cpd, cres, str>>

InitString ==
    /\ exists = FALSE
    /\ header = << >>
    /\ fileLen = 0
    /\ data = << >>
    /\ now = 0
    /\ nWrites = 0
    /\ res = NoRes
    /\ chunks = << >>
    /\ section = << >>
    /\ blk = 0
    /\ lst = << >>
    /\ lres = 0
    /\ cpd = << >>
    /\ cres = 0
    /\ str \in StringInputs
    /\ sres = [op |-> "none", out |-> "ok", bytes |-> << >>, text |-> << >>,
               rest |-> << >>]

NextString == StringNew \/ StringDecode

SpecString == InitString /\ [][NextString]_vars

-----------------------------------------------------------------------------
\* C1: a successful write() of a chunk whose slot was Absent puts the slot at
\* max(2, max over all 1024 entries of offset + sectorCount).
C1_AbsentSlotAppended ==
    [][ (WriteStep /\ res'.out = "ok" /\ Absent(header, Slot(res'.p)))
        => OffIn(header', Slot(res'.p)) =
             Max({2} \cup {OffIn(header, i) + CntIn(header, i) : i \in Entries})
      ]_vars

\* C2: a write() that changes the sector count of an Allocated slot by d keeps
\* the slot's offset, moves every other entry with a greater offset by d,
\* leaves the entries with a smaller offset alone and changes the file length
\* by d sectors.
C2_ResizeShiftsFollowing ==
    [][ LET h == Slot(res'.p)
            d == CntIn(header', h) - CntIn(header, h)
        IN  (WriteStep /\ Allocated(header, h) /\ d # 0)
            => /\ OffIn(header', h) = OffIn(header, h)
               /\ \A i \in Entries \ {h} :
                    /\ OffIn(header, i) > OffIn(header, h)
                         => OffIn(header', i) = OffIn(header, i) + d
                    /\ OffIn(header, i) < OffIn(header, h)
                         => OffIn(header', i) = OffIn(header, i)
               /\ fileLen' = fileLen + d
      ]_vars

C2_Witness ==
    /\ res.op = "write" /\ res.out = "ok" /\ res.alloc /\ res.d < 0
    /\ \E i \in DOMAIN header :
         /\ i # Slot(res.p)
         /\ Allocated(header, i)
         /\ header[i].off > header[Slot(res.p)].off

\* C3: writing the chunk at p leaves the sector count and the timestamp of the
\* entry of every chunk at other region-relative coordinates as they were.
C3_DistinctSlots ==
    [][ WriteStep =>
        \A q \in Coords :
            (q # res'.p /\ Allocated(header, Slot(q)))
            => /\ CntIn(header', Slot(q)) = CntIn(header, Slot(q))
               /\ TsIn(header', Slot(q)) = TsIn(header, Slot(q))
      ]_vars

\* C4: a write() that follows a successful write() of the same chunk with the
\* same content changes no location entry and not the file length.
C4_SecondWriteIdempotent ==
    [][ (/\ WriteStep
         /\ res.op = "write" /\ res.out = "ok"
         /\ res'.p = res.p /\ res'.v = res.v)
        => /\ \A i \in Entries :
                /\ OffIn(header', i) = OffIn(header, i)
                /\ CntIn(header', i) = CntIn(header, i)
           /\ \A i \in Entries \ {Slot(res.p)} :
                TsIn(header', i) = TsIn(header, i)
           /\ fileLen' = fileLen
      ]_vars

C4_Witness ==
    /\ res.op = "write" /\ res.out = "ok" /\ res.again /\ res.d = 0
    /\ \E i \in DOMAIN header : i # Slot(res.p) /\ Allocated(header, i)

\* C6: a write() that ends in an error leaves all location entries and all
\* timestamps as they were.
C6_FailedWriteKeepsHeader ==
    [][ (WriteStep /\ res'.out # "ok") => header' = header ]_vars

\* Sanity: offsets below the header never occur, and a stored offset inside
\* the file points at the start of an image or at zeros.
OffsetsSane ==
    /\ \A i \in DOMAIN header : header[i].off = 0 \/ header[i].off >= 2
    /\ \A i \in DOMAIN header : SectorAt(header[i].off).ix = 0
    /\ exists => fileLen >= HeaderSectors

-----------------------------------------------------------------------------
(* get_block: the last call, read from blk and section *)

BlockCalled == blk.r.out # "none"
ValidPos == /\ 0 <= blk.x /\ blk.x <= 15
            /\ 0 <= blk.z /\ blk.z <= 15
            /\ 0 <= blk.y /\ blk.y <= 255
Matching == {k \in 1 .. Len(section) : section[k].Y = blk.y \div 16}
HasMatch == Matching # {}
\* the first section of the list whose Y is y/16
Match == section[CHOOSE k \in Matching : \A m \in Matching : k <= m]

\* C8: at a valid position get_block gives air, and no error, when no section
\* has Y = y/16, when the matching section has no Palette, and when its
\* Palette is empty.
C8_AirDefault ==
    (/\ BlockCalled /\ ValidPos
     /\ \/ ~HasMatch
        \/ ~Match.hasPalette
        \/ Match.Palette = << >>)
    => blk.r = [out |-> "ok", val |-> Air]

\* The word as its 64 bits, most significant first (bit 1 is the top bit).
TopBit(bytes, i) == (bytes[((i - 1) \div 8) + 1] \div Pow2(7 - ((i - 1) % 8))) % 2
RECURSIVE FieldValue(_, _, _)
\* the number written by the n bits of the word that start at bit first
FieldValue(bytes, first, n) ==
    IF n = 0 THEN 0
    ELSE 2 * FieldValue(bytes, first, n - 1) + TopBit(bytes, first + n - 1)

\* C9: with a palette of p >= 1 entries get_block gives palette[idx], idx the
\* bitWidth-bit field number subIndex (counted from the top of the word) of
\* BlockStates[longIndex]; the field lies inside the word; idx >= p is an
\* error, never a palette entry.
C9_PackedLookup ==
    (/\ BlockCalled /\ ValidPos /\ HasMatch
     /\ Match.hasPalette /\ Len(Match.Palette) >= 1
     /\ Match.hasStates)
    => LET p == Len(Match.Palette)
           bitWidth == IF p >= 32 THEN 6 ELSE IF p >= 16 THEN 5 ELSE 4
           entriesPerLong == 64 \div bitWidth
           blockIndex == (blk.y % 16) * 256 + blk.z * 16 + blk.x
           longIndex == blockIndex \div entriesPerLong
           subIndex == blockIndex % entriesPerLong
           idx == FieldValue(Match.BlockStates[longIndex + 1],
                             subIndex * bitWidth + 1, bitWidth)
       IN  longIndex < Len(Match.BlockStates)
           => /\ (subIndex + 1) * bitWidth <= 64
              /\ IF idx < p
                 THEN blk.r = [out |-> "ok", val |-> Match.Palette[idx + 1]]
                 ELSE blk.r.out = "IndexError"

C9_Witness ==
    /\ BlockCalled /\ ValidPos /\ HasMatch
    /\ Match.hasPalette /\ Len(Match.Palette) = 17 /\ Match.hasStates
    /\ blk.x = 1 /\ blk.y = 240 /\ blk.z = 0
    /\ blk.r = [out |-> "ok", val |-> 9]

-----------------------------------------------------------------------------
\* C5: open() ends with the chunk-not-found error whenever the entry's
\* sector offset is below 2 or its sector count is 0, and loads a chunk only
\* when the offset is at least 2 and the count greater than 0.
C5_AbsentNotFound ==
    res.op = "open" =>
        /\ Absent(header, Slot(res.p)) => res.out = "FileNotFoundError"
        /\ res.out = "ok" => Allocated(header, Slot(res.p))

\* C7: a closed chunk stays closed; write, get_block and entry assignment on
\* a closed chunk end in the closed-file error; a write() on a closed chunk
\* leaves the region file alone; close(save=True) of an open chunk runs
\* write() once and close() of a closed chunk does not run it.
C7_Lifecycle ==
    [][ /\ \A c \in ChunkIds : IsClosed(c) => chunks'[c].st = "closed"
        /\ (res'.closed /\ res'.op \in {"write", "get_block", "set"})
             => /\ res'.out = "ValueError"
                /\ UNCHANGED regionVars
        /\ (res'.op = "close_save" /\ ~res'.closed)
             => nWrites' = nWrites + 1
        /\ (res'.op \in {"close", "close_save"} /\ res'.closed)
             => nWrites' = nWrites /\ UNCHANGED regionVars
      ]_vars

-----------------------------------------------------------------------------
\* C10: append of a tag of another kind to a non-empty List ends in an error
\* and leaves the List as it was; append of a tag to an empty List succeeds
\* and makes the tag's kind the element kind.
C10_AppendTypeChecked ==
    [][ lres'.op = "append" =>
        /\ (lst # << >> /\ lres'.arg.k # ElementType(lst))
             => (lres'.out # "ok" /\ lst' = lst)
        /\ lst = << >>
             => /\ lres'.out = "ok"
                /\ lst' = <<lres'.arg>>
                /\ ElementType(lst') = lres'.arg.k
      ]_vars

-----------------------------------------------------------------------------
\* C11: while a List is non-empty, append, insert, extend, item assignment
\* and concatenation leave its element kind as it was, and all its elements
\* have that kind.
C11_ElementKindFixed ==
    [][ (lst # << >> /\ lst' # << >>)
        => /\ ElementType(lst') = ElementType(lst)
           /\ \A i \in 1 .. Len(lst') : lst'[i].k = ElementType(lst')
      ]_vars

-----------------------------------------------------------------------------
\* C12: an assignment to a key the Compound already has leaves the kind of
\* the tag under that key and the order of the keys as they were, stores
\* elements of the old element kind when the old value was a non-empty List,
\* and changes nothing when it fails; an assignment to a key the Compound
\* does not have adds the value as given.
C12_SchemaPreserved ==
    [][ cres'.op = "setitem" =>
        IF HasKey(cpd, cres'.key)
        THEN LET old == Item(cpd, cres'.key)
                 new == Item(cpd', cres'.key)
             IN  /\ Len(cpd') = Len(cpd)
                 /\ \A i \in 1 .. Len(cpd) : cpd'[i].name = cpd[i].name
                 /\ new.k = old.k
                 /\ (old.k = ListID /\ old.v # << >> /\ cres'.out = "ok")
                      => \A i \in 1 .. Len(new.v) :
                           new.v[i].k = ElementType(old.v)
                 /\ cres'.out # "ok" => cpd' = cpd
        ELSE /\ cres'.out = "ok"
             /\ cpd' = Append(cpd, [name |-> cres'.key, tag |-> cres'.arg])
      ]_vars

\* an assignment of a tag of another kind to an existing key went through
C12_Witness ==
    /\ cres.op = "setitem" /\ cres.had /\ cres.out = "ok"
    /\ cres.arg.k # Item(cpd, cres.key).k
    /\ Item(cpd, cres.key).k = ListID
    /\ Item(cpd, cres.key).v # << >>

-----------------------------------------------------------------------------
\* C13: to_bytes of a Compound succeeds, and from_bytes of the bytes it gave
\* succeeds, gives a Compound with the same keys in the same order and the
\* same values, and leaves no byte unread.
C13_CompoundRoundTrip ==
    /\ cres.op = "to_bytes" => cres.out = "ok"
    /\ cres.op = "from_bytes"
         => /\ cres.out = "ok"
            /\ cres.tag = Compound(cpd)
            /\ cres.rest = << >>

\* a Compound with a Compound nested in a Compound and one nested in a List
\* came back from its bytes
C13_Witness ==
    /\ cres.op = "from_bytes" /\ cres.out = "ok"
    /\ Len(cpd) = 2
    /\ cpd[1].tag = Compound(Entry1(<<97>>,
                       Compound(Entry1(<<98>>, [k |-> IntID, v |-> 0 - 1]))))
    /\ cpd[2].tag = List(<<Compound(<< >>),
                           Compound(Entry1(<<97>>, [k |-> ByteID, v |-> 1]))>>)
    /\ cres.tag.v[2].tag = cpd[2].tag

-----------------------------------------------------------------------------
\* C14: a text whose UTF-8 form has n bytes is encoded when n <= 65535, the
\* two prefix bytes then being n as an unsigned big-endian number, and is
\* refused when n > 65535; from_bytes of the encoding gives the text back
\* and reads the prefix and n bytes, no more.
C14_UnsignedLengthPrefix ==
    LET n == Len(Utf8(str))
    IN  /\ sres.op = "new"
             => IF n <= 65535
                THEN /\ sres.out = "ok"
                     /\ Len(sres.bytes) = 2 + n
                     /\ BytesValue(SubSeq(sres.bytes, 1, 2)) = n
                ELSE sres.out # "ok"
        /\ sres.op = "from_bytes"
             => /\ sres.out = "ok"
                /\ sres.text = str
                /\ sres.rest = << >>

-----------------------------------------------------------------------------
(* The region file after calls of write() that succeeded *)

\* sector s of the sectors dt
SectorIn(dt, s) == IF s \in DOMAIN dt THEN dt[s] ELSE ZeroSector

\* C15: open() of a chunk gives the content and the timestamp of the Chunk
\* object that was written last at its coordinates, whatever chunks at other
\* coordinates were written after it.
C15_WriteThenOpen ==
    (res.op = "open" /\ chunks[res.p].st = "open")
    => /\ res.out = "ok"
       /\ res.v = chunks[res.p].val
       /\ OpenResult(res.p[1], res.p[2]) =
            [out |-> "ok", val |-> chunks[res.p].val, ts |-> chunks[res.p].ts]

\* C16: a write() that succeeds leaves the sector count and the timestamp of
\* every other Allocated slot as they were, and the sectors found at the
\* slot's offset after the write are those found at its offset before.
C16_OtherSlotsIntact ==
    [][ (WriteStep /\ res'.out = "ok") =>
        \A i \in DOMAIN header \ {Slot(res'.p)} :
            Allocated(header, i)
            => /\ CntIn(header', i) = CntIn(header, i)
               /\ TsIn(header', i) = TsIn(header, i)
               /\ \A j \in 0 .. (CntIn(header, i) - 1) :
                    SectorIn(data', OffIn(header', i) + j)
                      = SectorIn(data, OffIn(header, i) + j)
      ]_vars

\* C17: after a write() that succeeds the 4 + length bytes of the chunk lie
\* inside the newSectorCount = 1 + length/4096 sectors of its slot, which
\* lie inside the file.
C17_PayloadInsideSlot ==
    [][ (WriteStep /\ res'.out = "ok") =>
        LET h == Slot(res'.p)
            length == PayloadLens[res'.v] + 1
        IN  /\ CntIn(header', h) = 1 + (length \div SectorSize)
            /\ 4 + length <= CntIn(header', h) * SectorSize
            /\ OffIn(header', h) + CntIn(header', h) <= fileLen'
      ]_vars

\* C18: in a region file made by successful writes every entry that is not
\* zero is Allocated (offset >= 2, count >= 1), the sector ranges of two
\* Allocated entries do not meet, and the file ends where the last of them
\* ends (after the header when there is none).
C18_HeaderConsistent ==
    exists =>
        /\ \A i \in DOMAIN header :
             /\ Allocated(header, i)
             /\ header[i].off >= 2 /\ header[i].cnt >= 1
        /\ \A i, j \in DOMAIN header :
             i # j => \/ header[i].off + header[i].cnt <= header[j].off
                      \/ header[j].off + header[j].cnt <= header[i].off
        /\ fileLen = Max({2} \cup {header[i].off + header[i].cnt :
                                     i \in DOMAIN header})

\* a chunk grew in front of another one
C18_Witness ==
    /\ res.op = "write" /\ res.out = "ok" /\ res.alloc /\ res.d > 0
    /\ \E i \in DOMAIN header :
         /\ i # Slot(res.p)
         /\ header[i].off = header[Slot(res.p)].off + header[Slot(res.p)].cnt
         /\ header[i].off + header[i].cnt = fileLen

====
